---- MODULE Spec2Model ----
(***************************************************************************)
(* A model of the AudioPlatform ASR service: the HTTP handler asr_json,    *)
(* process_audio with its three modes, ASREngine.recognize,                *)
(* ASREngine.recognize_with_diarize_segments (diarization resolver, span   *)
(* loop, persistence, whole-file fallbacks) and TempManager's session      *)
(* directories.  Times are integers in milliseconds.                       *)
(***************************************************************************)
EXTENDS Integers, Sequences, FiniteSets, TLC

\* ------------------------------------------------------------------ bounds
\* instants the wall clock can show: 0 .. MaxClock
MaxClock == 5
\* instants of a day: the clock moves by 24 / TicksPerDay hours
TicksPerDay == 2
\* calls of create_session_dir that are followed
MaxCalls == 2
\* runs of cleanup_old_sessions that are followed
MaxSweeps == 2
\* the values of max_age_days: 0 .. MaxAgeDays
MaxAgeDays == 1
\* the threads of the server
NumThreads == 3
\* requests a thread serves
MaxServed == 2
\* how many of the 90000 values of random.randint(10000, 99999) are drawn
NumRand == 3
\* the sources have up to this many channels
MaxChannels == 4

\* ------------------------------------------------------- program constants
\* random.randint(10000, 99999): the lower end of the suffix
RandMin == 10000
\* "end_time = max(start_time + 0.1, segment.end)" and the 0.1 s span check
MinSpanMs == 100
\* min_segment_length = 0.5
MinSegmentMs == 500
\* hop_length = int(sr * 0.01): one energy frame every 10 ms
HopMs == 10

\* ------------------------------------------------------------------ inputs
\* The source files a request can carry.  "a": stereo, 2.4 s, the recognizer
\* returns its segments out of order; "b": mono, 0.1 s; "c": mono, 1.2 s of
\* silence (no segment recognized).
Sources == {"a", "b", "c"}

Duration(s) == CASE s = "a" -> 2400 [] s = "b" -> 100 [] OTHER -> 1200

Channels(s) == IF s = "a" THEN 2 ELSE IF s = "b" THEN 1 ELSE 3

Modes == {"combined", "split", "diarize_segments", "unknown_mode"}

NoFile == [kind |-> "none"]

\* ----------------------------------------------------------------- helpers
Max(a, b) == IF a >= b THEN a ELSE b

RECURSIVE InsertByStart(_, _)
\* insert x after every element whose start_time is <= x.start_time (stable)
InsertByStart(sorted, x) ==
    IF sorted = <<>> THEN <<x>>
    ELSE IF Head(sorted).start_time <= x.start_time
         THEN <<Head(sorted)>> \o InsertByStart(Tail(sorted), x)
         ELSE <<x>> \o sorted

RECURSIVE SortByStartFrom(_, _)
SortByStartFrom(acc, rest) ==
    IF rest = <<>> THEN acc
    ELSE SortByStartFrom(InsertByStart(acc, Head(rest)), Tail(rest))

\* a sort that leaves the list in the order the loop appended it
SortByStart_Unsorted(segs) == segs

\* list.sort(key=lambda x: x["start_time"]): stable, ascending
SortByStart(segs) == SortByStartFrom(<<>>, segs)

IsSortedByStart(segs) ==
    \A i \in 1..(Len(segs) - 1) : segs[i].start_time <= segs[i + 1].start_time

\* ------------------------------------------------- the recognition models
\* segment["text"].strip(), on the texts the speech-to-text model returns
Strip(t) ==
    CASE t = " first" -> "first"
      [] t = " second" -> "second"
      [] t = " hi" -> "hi"
      [] t = " yo " -> "yo"
      [] t = " " -> ""
      [] OTHER -> t

Seg(t, s, e) == [text |-> t, start |-> s, end |-> e]

\* self.model.transcribe(audio_path, ...)["segments"] of a whole source file
TranscribeSource(s) ==
    CASE s = "a" -> <<Seg(" second", 1000, 1900), Seg(" first", 0, 900)>>
      [] s = "b" -> <<Seg(" hi", 0, 100)>>
      [] OTHER -> <<>>

\* ... of one channel of a stereo source
TranscribeChannel(s, ch) ==
    IF ch = 0 THEN <<Seg(" second", 1000, 1900)>>
    ELSE <<Seg(" yo ", 1200, 1500), Seg(" first", 0, 900)>>

\* ... of an extracted slice: what the model may hear in it
SliceTranscripts ==
    { <<>>,
      <<Seg(" ", 0, 100)>>,
      <<Seg(" hi", 0, 100), Seg(" ", 100, 150), Seg(" yo ", 150, 300)>> }

\* whisperx.align(result["segments"], ...)["segments"]: the same texts with
\* refined boundaries
Align(segs) ==
    [i \in DOMAIN segs |->
        Seg(segs[i].text, segs[i].start + 50, Max(segs[i].start + 50, segs[i].end - 50))]

\* how one call of ASREngine.recognize can go
RecognizeOutcomes == {"ok", "transcribe_raises", "load_align_raises", "align_raises"}

\* the list recognize builds from result["segments"]
ToSegments(segs) ==
    [i \in DOMAIN segs |->
        [text |-> Strip(segs[i].text),
         start_time |-> segs[i].start,
         end_time |-> segs[i].end]]

\* ASREngine.recognize: transcribe, load the alignment model, align, release
\* the alignment model, build the list.  Nothing catches an exception.
Recognize(coarse, out) ==
    CASE out = "transcribe_raises" ->
            [raised |-> TRUE, segments |-> <<>>, loaded |-> FALSE, released |-> FALSE]
      [] out = "load_align_raises" ->
            [raised |-> TRUE, segments |-> <<>>, loaded |-> FALSE, released |-> FALSE]
      [] out = "align_raises" ->
            [raised |-> TRUE, segments |-> <<>>, loaded |-> TRUE, released |-> FALSE]
      [] OTHER ->
            [raised |-> FALSE, segments |-> ToSegments(Align(coarse)),
             loaded |-> TRUE, released |-> TRUE]

\* ------------------------------------------------ the diarization resolver
Turn(spk, s, e) == [speaker |-> spk, start |-> s, end |-> e]

\* what diarization.itertracks(yield_label=True) can yield: the turns of a
\* pyannote annotation, which it iterates in ascending order of start
MLTurnChoices ==
    { <<>>,
      <<Turn("SPEAKER_00", 0, 900), Turn("SPEAKER_01", 900, 950)>>,
      <<Turn("SPEAKER_01", -20, 30), Turn("SPEAKER_02", 400, 400)>> }

\* start_time = max(0, segment.start); end_time = max(start_time + 0.1, segment.end)
BumpTurn(t) ==
    Turn(t.speaker, Max(0, t.start), Max(Max(0, t.start) + MinSpanMs, t.end))

\* a default timeline of one span, the whole source
DefaultHalves_OneSpan(d) == <<Turn("SPEAKER_00", 0, d)>>

\* the two default spans: mid_point = audio_length / 2
DefaultHalves(d) ==
    <<Turn("SPEAKER_00", 0, d \div 2), Turn("SPEAKER_01", d \div 2, d)>>

\* the segments the ML stage writes for the turns the pipeline yielded
MLSegments(turns, d) ==
    IF Len(turns) = 0 THEN DefaultHalves(d)
    ELSE [i \in DOMAIN turns |-> BumpTurn(turns[i])]

\* The frame energies librosa.feature.rms gives for a source, as runs
\* <<energy, number of frames>>.
EnergyRuns(s) ==
    CASE s = "a" -> <<<<1, 40>>, <<9, 55>>, <<1, 30>>, <<9, 15>>, <<1, 25>>, <<9, 50>>,
                      <<1, 26>>>>
      [] s = "b" -> <<<<1, 6>>, <<9, 5>>>>
      [] OTHER -> <<<<2, 121>>>>

RECURSIVE Expand(_)
Expand(runs) ==
    IF runs = <<>> THEN <<>>
    ELSE [i \in 1..Head(runs)[2] |-> Head(runs)[1]] \o Expand(Tail(runs))

Energy(s) == Expand(EnergyRuns(s))

\* the k-th smallest value of a sequence of energies
KthSmallest(e, k) ==
    CHOOSE v \in {e[i] : i \in DOMAIN e} :
        /\ Cardinality({i \in DOMAIN e : e[i] <= v}) >= k
        /\ Cardinality({i \in DOMAIN e : e[i] < v}) < k

\* twice np.median(energy): the two middle values added (the middle one
\* doubled for an odd count)
TwiceMedian(e) ==
    IF Len(e) % 2 = 1 THEN 2 * KthSmallest(e, (Len(e) + 1) \div 2)
    ELSE KthSmallest(e, Len(e) \div 2) + KthSmallest(e, Len(e) \div 2 + 1)

\* e > energy_threshold, for every frame: energy_threshold = np.median(energy) * 1.2
AboveThreshold(e) ==
    LET m2 == TwiceMedian(e)
    IN  [i \in DOMAIN e |-> 10 * e[i] > 6 * m2]

\* The frames i < 450 for which (i + 50) * hop_length / sr - i * hop_length / sr,
\* computed in the double arithmetic of Python, is below 0.5 (for the sample
\* rates 8000, 16000, 44100 and 48000, whose hop is 10 ms): the quotients are
\* rounded, and so is their difference.
RoundsShort ==
    { 7, 8, 19, 20, 32, 33, 34, 44, 45, 46, 63, 64, 65, 66, 67, 68, 88, 89, 90, 91,
      92, 93, 151, 153, 155, 157, 159, 161, 176, 178, 180, 182, 184, 186, 352, 356,
      360, 364, 368, 372, 377, 381, 385, 389, 393, 397 }

\* end_time - start_time >= min_segment_length, for the times of two frames:
\* 51 frames apart or more it holds, 49 or fewer it does not, at 50 frames it
\* depends on the rounding
LongEnough(start, end) ==
    IF end - start = MinSegmentMs THEN (start \div HopMs) \notin RoundsShort
    ELSE end - start > MinSegmentMs

\* one pass of the loop body, for frame i (0-based) of n: st holds is_speech,
\* start_time and the segments kept so far
EnergyStep(st, above, i, n) ==
    LET time == i * HopMs
    IN  IF ~st.speech /\ above
        THEN [st EXCEPT !.speech = TRUE, !.start = time]
        ELSE IF st.speech /\ (~above \/ i = n - 1)
        THEN [st EXCEPT !.speech = FALSE,
                        !.segs = IF LongEnough(st.start, time)
                                 THEN Append(st.segs,
                                         Turn(IF Len(st.segs) % 2 = 0
                                              THEN "SPEAKER_00" ELSE "SPEAKER_01",
                                              st.start, time))
                                 ELSE st.segs]
        ELSE st

RECURSIVE EnergyFrames(_, _, _, _)
\* the loop body run for the frames i .. to - 1 (0-based), from state st
EnergyFrames(st, above, i, to) ==
    IF st.start < 0 \/ i >= to THEN st
    ELSE EnergyFrames(EnergyStep(st, above[i + 1], i, Len(above)), above, i + 1, to)

RECURSIVE EnergyLoop(_, _)
\* "for i, e in enumerate(energy)": the state after the first k frames,
\* evaluated 32 frames at a time
EnergyLoop(above, k) ==
    IF k = 0 THEN [speech |-> FALSE, start |-> 0, segs |-> <<>>]
    ELSE LET from == ((k - 1) \div 32) * 32
         IN  EnergyFrames(EnergyLoop(above, from), above, from, k)

\* the turns the loop of the energy stage keeps, of a sequence of energies
EnergyTurnsOf(e) ==
    LET above == AboveThreshold(e)
    IN  EnergyLoop(above, Len(above)).segs

\* ... of a source
EnergyTurns(s) == EnergyTurnsOf(Energy(s))

\* the segments the energy stage writes
EnergySegments(s) ==
    LET segs == EnergyTurns(s)
    IN  IF segs = <<>> THEN DefaultHalves(Duration(s)) ELSE segs

\* ------------------------------------------------------------------- state
VARIABLES
    clock,      \* datetime.now()
    dirs,       \* the directories under base_dir
    returned,   \* what the calls of create_session_dir returned, in order
    sweep,      \* cleanup_old_sessions under way: its now, its max_age_days and
                \* the entries of os.listdir it has not looked at yet
    removed,    \* the directories removed by a sweep, with the time and the
                \* max_age_days of the removal
    sweeps,     \* the sweeps started
    files,      \* the files of the session directory of the request at hand
    pc,         \* where the request being handled stands
    req,        \* its mode and source file
    segments,   \* recognize_with_diarize_segments: the timeline read
    idx,        \* ... the span (or channel) the loop is at
    results,    \* the transcript being built
    counts,     \* successful_segments, failed_segments
    ev,         \* what the request has invoked and written so far
    resp,       \* the response of the request
    prev,       \* of the request before, when this one runs in its directory:
                \* its mode, its source and the timeline it read
    unit,       \* a component called on its own: the call and what it returned
    threaded,   \* how the server handles requests: "threaded", each in a thread
                \* of its own, or "serial"; "unset" until the first one arrives
    thr         \* per server thread: where its request stands in recognize, and
                \* how many requests it has served

storeVars == <<clock, dirs, returned, sweep, removed, sweeps>>

reqVars == <<files, pc, req, segments, idx, results, counts, ev, resp, prev>>

unitVars == <<unit>>

serveVars == <<threaded, thr>>

vars == <<clock, dirs, returned, sweep, removed, sweeps, files, pc, req, segments, idx, results, counts, ev, resp,
          prev, unit, threaded, thr>>

RandValues == RandMin..(RandMin + NumRand - 1)

EmptyDir ==
    [original |-> NoFile, diar |-> NoFile, dresults |-> NoFile, dsummary |-> NoFile,
     final |-> NoFile, csummary |-> NoFile, channels |-> {}, slices |-> {}]

NoRec ==
    [out |-> "none", raised |-> FALSE, segments |-> <<>>, coarse |-> <<>>,
     loaded |-> FALSE, released |-> FALSE]

\* reused: the request runs in the directory of the one before; cacheHit:
\* diarize_segments.json was found; ml, energy, split, whole, rec, extract:
\* zeroTurns: the stage that persisted the timeline had detected no turn;
\* calls of the pipeline, the energy heuristic, split_channels, recognize on
\* the whole source, recognize, extract_segment; read: the timeline was read;
\* fallback: why whole-file recognition was called inside the try block;
\* excepted: the outer except clause was entered; wholeFailed: its
\* recognize raised; persisted: the loop ended and the results were to be
\* written, computed: those results; wfail: a result write failed;
\* lastRec: the last call of recognize, with whether it loaded an alignment
\* model and whether it released it; channelError: split_channels raised
\* its ValueError on the number of channels; writes: the files written
NoEvents ==
    [reused |-> FALSE, cacheHit |-> FALSE, ml |-> 0, energy |-> 0, mlRaised |-> FALSE,
     energyRaised |-> FALSE, zeroTurns |-> FALSE, split |-> 0, whole |-> 0, rec |-> 0, extract |-> 0,
     read |-> FALSE, fallback |-> "none", excepted |-> FALSE, wholeFailed |-> FALSE,
     wholeTranscribeRaised |-> FALSE, persisted |-> FALSE, computed |-> <<>>,
     wfail |-> FALSE, lastRec |-> NoRec, channelError |-> FALSE, writes |-> <<>>]

NoPrev == [mode |-> "none", src |-> "none", read |-> FALSE, segments |-> <<>>]

\* the events after a call of recognize on `coarse` that went `out`
AfterRecognize(e, coarse, out, r, whole) ==
    [e EXCEPT !.rec = @ + 1,
              !.whole = IF whole THEN @ + 1 ELSE @,
              !.lastRec = [out |-> out, raised |-> r.raised, segments |-> r.segments,
                           coarse |-> coarse, loaded |-> r.loaded,
                           released |-> r.released]]

NoResp == [status |-> "none", code |-> 0, transcript |-> <<>>]

Audio(s) == [kind |-> "audio", src |-> s]

Json(data) == [kind |-> "json", data |-> data]

\* a summary file: one line per segment, times with `decimals` decimals
Summary(segs, decimals) == [kind |-> "text", decimals |-> decimals, lines |-> segs]

\* directories under base_dir that create_session_dir did not make: a name
\* without '_', a name whose part before '_' is no date, and a name whose
\* part before '_' is a date but which is no session id
ForeignDirs == {[kind |-> "plain"], [kind |-> "undated"], [kind |-> "dated", date |-> 0]}

NoSweep == [active |-> FALSE, now |-> 0, max |-> 0, todo |-> {}]

InitStore ==
    /\ clock = 0
    /\ dirs = ForeignDirs
    /\ returned = <<>>
    /\ sweep = NoSweep
    /\ removed = {}
    /\ sweeps = 0

InitRequest ==
    /\ files = EmptyDir
    /\ pc = "idle"
    /\ req = [mode |-> "combined", src |-> "a"]
    /\ segments = <<>>
    /\ idx = 0
    /\ results = <<>>
    /\ counts = [ok |-> 0, failed |-> 0]
    /\ ev = NoEvents
    /\ resp = NoResp
    /\ prev = NoPrev

NoUnit == [op |-> "none"]

InitUnits == unit = NoUnit

\* the threads of the server
Threads == 1..NumThreads

\* app.run(...): the development server of Flask handles each request in a
\* thread of its own unless the installed version or the deployment says
\* otherwise
InitServe ==
    /\ threaded = "unset"
    /\ thr = [t \in Threads |-> [pc |-> "idle", served |-> 0]]

Init == InitStore /\ InitRequest /\ InitUnits /\ InitServe

\* ----------------------------------------------------------- session store
\* strftime('%Y%m%d') and strftime('%H%M%S') of an instant
DateOf(now) == now \div TicksPerDay

TimeOf(now) == now % TicksPerDay

\* f"{datetime.now().strftime('%Y%m%d_%H%M%S')}_{random_number}"
SessionId(now, rnd) ==
    [kind |-> "session", date |-> DateOf(now), time |-> TimeOf(now), rnd |-> rnd]

\* the passing of time
Tick ==
    /\ clock < MaxClock
    /\ clock' = clock + 1
    /\ UNCHANGED <<dirs, returned, sweep, removed, sweeps>>
    /\ UNCHANGED <<reqVars, unitVars, serveVars>>

\* TempManager.create_session_dir: os.makedirs(session_dir, exist_ok=True)
\* accepts a directory that is already there
CreateSessionDir(rnd) ==
    /\ Len(returned) < MaxCalls
    /\ dirs' = dirs \cup {SessionId(clock, rnd)}
    /\ returned' = Append(returned, SessionId(clock, rnd))
    /\ UNCHANGED <<clock, sweep, removed, sweeps>>
    /\ UNCHANGED <<reqVars, unitVars, serveVars>>

\* '_' in session_id
HasUnderscore(name) == name.kind # "plain"

\* datetime.strptime(session_id.split('_')[0], '%Y%m%d'): the date, or ValueError
ParseDate(name) ==
    IF name.kind \in {"session", "dated"}
    THEN [ok |-> TRUE, date |-> name.date]
    ELSE [ok |-> FALSE, date |-> 0]

\* (now - session_date).days: whole days since the midnight of the date,
\* rounded down
AgeDays(now, date) == (now - date * TicksPerDay) \div TicksPerDay

\* the body of the loop of cleanup_old_sessions: whether it removes a directory
SweepRemoves(now, max_age_days, name) ==
    /\ HasUnderscore(name)
    /\ ParseDate(name).ok
    /\ AgeDays(now, ParseDate(name).date) > max_age_days

\* cleanup_old_sessions(max_age_days): now = datetime.now(), os.listdir(base_dir)
SweepStart(max_age_days) ==
    /\ ~sweep.active
    /\ sweeps < MaxSweeps
    /\ dirs # {}
    /\ sweep' = [active |-> TRUE, now |-> clock, max |-> max_age_days, todo |-> dirs]
    /\ sweeps' = sweeps + 1
    /\ UNCHANGED <<clock, dirs, returned, removed>>
    /\ UNCHANGED <<reqVars, unitVars, serveVars>>

\* one pass of its loop, on an entry of the listing; the sweep is over after
\* the last one
SweepStep(name) ==
    /\ sweep.active
    /\ name \in sweep.todo
    /\ IF name \in dirs /\ SweepRemoves(sweep.now, sweep.max, name)
       THEN /\ dirs' = dirs \ {name}
            /\ removed' = removed \cup {[dir |-> name, at |-> clock, max |-> sweep.max]}
       ELSE UNCHANGED <<dirs, removed>>
    /\ sweep' = IF sweep.todo = {name} THEN NoSweep
                ELSE [sweep EXCEPT !.todo = @ \ {name}]
    /\ UNCHANGED <<clock, returned, sweeps>>
    /\ UNCHANGED <<reqVars, unitVars, serveVars>>

NextStore ==
    \/ Tick
    \/ \E rnd \in RandValues : CreateSessionDir(rnd)
    \/ \E max_age_days \in 0..MaxAgeDays : SweepStart(max_age_days)
    \/ \E name \in sweep.todo : SweepStep(name)

\* the session store alone: calls of create_session_dir and sweeps as the
\* clock runs
SpecStore == Init /\ [][NextStore]_vars

\* --------------------------------------------------------------- responses
\* jsonify(error_response), code
ErrorResp(code) == [status |-> "error", code |-> code, transcript |-> <<>>]

\* jsonify({'status': 'success', 'data': {'transcript': results}})
SuccessResp(transcript) == [status |-> "success", code |-> 200, transcript |-> transcript]

ValidModes == {"split", "combined", "diarize_segments"}

\* where process_audio goes for a valid mode
ModeEntry(mode) ==
    CASE mode = "split" -> "split"
      [] mode = "diarize_segments" -> "diarize"
      [] OTHER -> "combined"

\* asr_json up to the dispatch on the mode in process_audio: the session
\* directory is created and the audio saved in it, then the mode is checked.
\* reuse: create_session_dir returned the directory of the request before
\* (same second, same random number).  Of an existing directory only
\* diarize_segments.json is ever read back; the other files left in it are
\* not kept.
AsrJson(mode, src, reuse) ==
    /\ pc \in {"idle", "done"}
    /\ reuse => pc = "done"
    /\ files' = [EmptyDir EXCEPT !.original = Audio(src),
                                 !.diar = IF reuse THEN files.diar ELSE NoFile]
    /\ ev' = [NoEvents EXCEPT !.reused = reuse,
                              !.writes = <<"session_dir", "original">>]
    /\ prev' = IF reuse
               THEN [mode |-> req.mode, src |-> req.src, read |-> ev.read,
                     segments |-> segments]
               ELSE NoPrev
    /\ req' = [mode |-> mode, src |-> src]
    /\ segments' = <<>>
    /\ idx' = 0
    /\ results' = <<>>
    /\ counts' = [ok |-> 0, failed |-> 0]
    /\ IF mode \in ValidModes
       THEN pc' = ModeEntry(mode) /\ resp' = NoResp
       ELSE pc' = "done" /\ resp' = ErrorResp(400)
    /\ UNCHANGED <<storeVars, unitVars, serveVars>>

\* ---------------------------------------------------------------- combined
\* results = asr_engine.recognize(dest_path)
CombinedRecognize(out) ==
    /\ pc = "combined"
    /\ LET r == Recognize(TranscribeSource(req.src), out)
       IN  /\ ev' = AfterRecognize(ev, TranscribeSource(req.src), out, r, TRUE)
           /\ IF r.raised
              THEN pc' = "done" /\ resp' = ErrorResp(500) /\ results' = results
              ELSE pc' = "combined_persist" /\ resp' = resp /\ results' = r.segments
    /\ UNCHANGED <<storeVars, unitVars, serveVars>>
    /\ UNCHANGED <<files, req, segments, idx, counts, prev>>

\* how the two writes of result artifacts can go
WriteOutcomes == {"ok", "first_fails", "second_fails"}

\* combined_summary.txt, final_results.json, and the response
CombinedPersist(w) ==
    /\ pc = "combined_persist"
    /\ files' = [files EXCEPT
                    !.csummary = IF w # "first_fails" THEN Summary(results, 1) ELSE @,
                    !.final = IF w = "ok" THEN Json(results) ELSE @]
    /\ ev' = [ev EXCEPT !.wfail = (w # "ok"),
                        !.persisted = TRUE,
                        !.computed = results,
                        !.writes = @ \o (IF w = "first_fails" THEN <<>>
                                         ELSE IF w = "second_fails" THEN <<"combined_summary.txt">>
                                         ELSE <<"combined_summary.txt", "final_results.json">>)]
    /\ pc' = "done"
    /\ IF w = "ok"
       THEN resp' = SuccessResp(results)
       ELSE resp' = ErrorResp(500)
    /\ UNCHANGED <<storeVars, unitVars, serveVars>>
    /\ UNCHANGED <<req, segments, idx, results, counts, prev>>

\* ------------------------------------------------------------------- split
ChannelOutcomes == {"ok", "load_raises", "first_fails", "second_fails"}

\* a splitter that takes the first two rows of whatever was loaded, without
\* looking at the number of channels
SplitChannelsResult_NoCheck(nch, given, out) ==
    [raised |-> FALSE, error |-> "none",
     writes |-> (IF given THEN <<>> ELSE <<"session_dir">>) \o <<"channel_0", "channel_1">>,
     channels |-> {0, 1}]

\* AudioProcessor.split_channels on a source of nch channels, with a session
\* directory given or not: whether it raises and with what, the files and
\* directories it has written by then, the channel files in the directory
SplitChannelsResult(nch, given, out) ==
    LET dir == IF given THEN <<>> ELSE <<"session_dir">>
    IN  CASE out = "load_raises" ->
                [raised |-> TRUE, error |-> "load", writes |-> <<>>, channels |-> {}]
          [] out # "load_raises" /\ nch # 2 ->
                [raised |-> TRUE, error |-> "channel_count", writes |-> <<>>,
                 channels |-> {}]
          [] out = "first_fails" /\ nch = 2 ->
                [raised |-> TRUE, error |-> "write", writes |-> dir, channels |-> {}]
          [] out = "second_fails" /\ nch = 2 ->
                [raised |-> TRUE, error |-> "write", writes |-> dir \o <<"channel_0">>,
                 channels |-> {0}]
          [] OTHER ->
                [raised |-> FALSE, error |-> "none",
                 writes |-> dir \o <<"channel_0", "channel_1">>, channels |-> {0, 1}]

\* channel_files, session_dir = audio_processor.split_channels(dest_path,
\* session_dir); an exception leaves process_audio and asr_json
SplitChannels(out) ==
    /\ pc = "split"
    /\ LET r == SplitChannelsResult(Channels(req.src), TRUE, out)
       IN  /\ ev' = [ev EXCEPT !.split = @ + 1,
                               !.channelError = (r.error = "channel_count"),
                               !.writes = @ \o r.writes]
           /\ files' = [files EXCEPT !.channels = r.channels]
           /\ IF r.raised
              THEN pc' = "done" /\ resp' = ErrorResp(500)
              ELSE pc' = "split_rec" /\ resp' = resp
    /\ UNCHANGED <<storeVars, unitVars, serveVars>>
    /\ UNCHANGED <<req, segments, idx, results, counts, prev>>

\* segment['speaker'] = speaker, for every segment of a channel's result
Label(segs, speaker) ==
    [i \in DOMAIN segs |->
        [text |-> segs[i].text, start_time |-> segs[i].start_time,
         end_time |-> segs[i].end_time, speaker |-> speaker]]

\* one pass of "for i, channel_file in enumerate(channel_files)"; after the
\* last one, the sort and the response
SplitRecognize(out) ==
    /\ pc = "split_rec"
    /\ LET r == Recognize(TranscribeChannel(req.src, idx), out)
           all == results \o Label(r.segments, IF idx = 0 THEN "speakerA" ELSE "speakerB")
       IN  /\ ev' = AfterRecognize(ev, TranscribeChannel(req.src, idx), out, r, FALSE)
           /\ IF r.raised
              THEN pc' = "done" /\ resp' = ErrorResp(500) /\ results' = results /\ idx' = idx
              ELSE IF idx = 0
              THEN pc' = "split_rec" /\ resp' = resp /\ results' = all /\ idx' = 1
              ELSE /\ pc' = "done"
                   /\ results' = SortByStart(all)
                   /\ resp' = SuccessResp(results')
                   /\ idx' = 2
    /\ UNCHANGED <<storeVars, unitVars, serveVars>>
    /\ UNCHANGED <<files, req, segments, counts, prev>>

\* -------------------------------------------------------- diarize_segments
\* diarize_segments.json as a stage writes it; `of` remembers the source file
\* the stage computed it from, which the file itself does not hold
Timeline(segs, src) == [kind |-> "timeline", segments |-> segs, of |-> src]

\* a resolver that never looks for diarize_segments.json: it always runs
\* stage 1
DiarizeEnter_IgnoresCache ==
    /\ pc = "diarize"
    /\ pc' = "d_ml"
    /\ ev' = ev
    /\ UNCHANGED <<storeVars, unitVars, serveVars>>
    /\ UNCHANGED <<files, req, segments, idx, results, counts, resp, prev>>

\* process_audio makes speaker_segments, recognize_with_diarize_segments
\* makes it again and looks for diarize_segments.json in the session directory
DiarizeEnter ==
    /\ pc = "diarize"
    /\ IF files.diar = NoFile
       THEN pc' = "d_ml" /\ ev' = ev
       ELSE pc' = "d_read" /\ ev' = [ev EXCEPT !.cacheHit = TRUE]
    /\ UNCHANGED <<storeVars, unitVars, serveVars>>
    /\ UNCHANGED <<files, req, segments, idx, results, counts, resp, prev>>

\* how a resolver stage can go: it persists the timeline; it raises; open()
\* of diarize_segments.json raises; json.dump raises midway and leaves a
\* truncated file
StageOutcomes == {"ok", "raises", "write_fails", "write_partial"}

Truncated == [kind |-> "truncated"]

\* a stage 1 after which the energy heuristic always runs
DiarizeML_ThenEnergy(out, turns) ==
    /\ pc = "d_ml"
    /\ ev' = [ev EXCEPT !.ml = @ + 1, !.mlRaised = (out # "ok"),
                        !.zeroTurns = (out = "ok" /\ Len(turns) = 0),
                        !.writes = IF out \in {"ok", "write_partial"}
                                   THEN Append(@, "diarize_segments.json") ELSE @]
    /\ IF out = "ok"
       THEN /\ files' = [files EXCEPT !.diar = Timeline(MLSegments(turns, Duration(req.src)), req.src)]
            /\ pc' = "d_energy"
       ELSE /\ files' = IF out = "write_partial" THEN [files EXCEPT !.diar = Truncated]
                        ELSE files
            /\ pc' = "d_energy"
    /\ UNCHANGED <<storeVars, unitVars, serveVars>>
    /\ UNCHANGED <<req, segments, idx, results, counts, resp, prev>>

\* stage 1: the pyannote pipeline
DiarizeML(out, turns) ==
    /\ pc = "d_ml"
    /\ ev' = [ev EXCEPT !.ml = @ + 1, !.mlRaised = (out # "ok"),
                        !.zeroTurns = (out = "ok" /\ Len(turns) = 0),
                        !.writes = IF out \in {"ok", "write_partial"}
                                   THEN Append(@, "diarize_segments.json") ELSE @]
    /\ IF out = "ok"
       THEN /\ files' = [files EXCEPT !.diar = Timeline(MLSegments(turns, Duration(req.src)), req.src)]
            /\ pc' = "d_read"
       ELSE /\ files' = IF out = "write_partial" THEN [files EXCEPT !.diar = Truncated]
                        ELSE files
            /\ pc' = "d_energy"
    /\ UNCHANGED <<storeVars, unitVars, serveVars>>
    /\ UNCHANGED <<req, segments, idx, results, counts, resp, prev>>

\* stage 2, in the except clause of stage 1: the energy heuristic; when it
\* raises too, FileNotFoundError goes to the outer except clause
DiarizeEnergy(out) ==
    /\ pc = "d_energy"
    /\ ev' = [ev EXCEPT !.energy = @ + 1, !.energyRaised = (out # "ok"),
                        !.zeroTurns = (out = "ok" /\ EnergyTurns(req.src) = <<>>),
                        !.excepted = (out # "ok"),
                        !.writes = IF out \in {"ok", "write_partial"}
                                   THEN Append(@, "diarize_segments.json") ELSE @]
    /\ IF out = "ok"
       THEN /\ files' = [files EXCEPT !.diar = Timeline(EnergySegments(req.src), req.src)]
            /\ pc' = "d_read"
       ELSE /\ files' = IF out = "write_partial" THEN [files EXCEPT !.diar = Truncated]
                        ELSE files
            /\ pc' = "d_except"
    /\ UNCHANGED <<storeVars, unitVars, serveVars>>
    /\ UNCHANGED <<req, segments, idx, results, counts, resp, prev>>

\* The content of a JSON file, as a sequence of tokens: the punctuation
\* marks, the stray character, the key "segments" with its colon, and the
\* fields of a span, each a key with its value.
Tok(c) == [t |-> c, key |-> "", s |-> "", n |-> 0]

StrField(k, v) == [t |-> "field", key |-> k, s |-> v, n |-> 0]

NumField(k, v) == [t |-> "field", key |-> k, s |-> "", n |-> v]

\* the character the read removes: c with cedilla
Stray == Tok("stray")

DumpSpan(t) ==
    <<Tok("{"), StrField("speaker", t.speaker), Tok(","), NumField("start", t.start),
      Tok(","), NumField("end", t.end), Tok("}")>>

RECURSIVE DumpSpans(_)
DumpSpans(segs) ==
    IF segs = <<>> THEN <<>>
    ELSE IF Len(segs) = 1 THEN DumpSpan(segs[1])
    ELSE DumpSpan(segs[1]) \o <<Tok(",")>> \o DumpSpans(Tail(segs))

\* json.dump({"segments": segs}, f, ...)
Dump(segs) ==
    <<Tok("{"), Tok("segments:"), Tok("[")>> \o DumpSpans(segs) \o <<Tok("]"), Tok("}")>>

\* what is in a file of the session directory: of a truncated one, the start
\* of a dump
ContentOf(file) ==
    IF file.kind = "timeline" THEN Dump(file.segments)
    ELSE <<Tok("{"), Tok("segments:"), Tok("[")>>

\* content.replace(stray, '')
RemoveStray(c) == SelectSeq(c, LAMBDA x : x.t # "stray")

RECURSIVE DropCommaBefore(_, _)
\* content.replace(',}', '}') and content.replace(',]', ']'): one pass from the
\* left over the occurrences that do not overlap
DropCommaBefore(c, close) ==
    IF Len(c) < 2 THEN c
    ELSE IF c[1].t = "," /\ c[2].t = close
    THEN <<c[2]>> \o DropCommaBefore(SubSeq(c, 3, Len(c)), close)
    ELSE <<c[1]>> \o DropCommaBefore(Tail(c), close)

\* a read that parses the content as it is
Repair_None(c) == c

\* the three replacements, in the order of the code
Repair(c) == DropCommaBefore(DropCommaBefore(RemoveStray(c), "}"), "]")

\* the mark at position i, "eof" past the end
At(c, i) == IF i \in DOMAIN c THEN c[i].t ELSE "eof"

\* whether a span object starts at position i
IsSpanAt(c, i) ==
    /\ At(c, i) = "{"
    /\ At(c, i + 1) = "field" /\ c[i + 1].key = "speaker"
    /\ At(c, i + 2) = ","
    /\ At(c, i + 3) = "field" /\ c[i + 3].key = "start"
    /\ At(c, i + 4) = ","
    /\ At(c, i + 5) = "field" /\ c[i + 5].key = "end"
    /\ At(c, i + 6) = "}"

SpanAt(c, i) == Turn(c[i + 1].s, c[i + 3].n, c[i + 5].n)

RECURSIVE ParseSpans(_, _, _)
\* the spans of an array from position i on, up to its closing bracket
ParseSpans(c, i, acc) ==
    IF ~IsSpanAt(c, i) THEN [ok |-> FALSE, next |-> i, spans |-> <<>>]
    ELSE IF At(c, i + 7) = "]"
    THEN [ok |-> TRUE, next |-> i + 8, spans |-> Append(acc, SpanAt(c, i))]
    ELSE IF At(c, i + 7) = ","
    THEN ParseSpans(c, i + 8, Append(acc, SpanAt(c, i)))
    ELSE [ok |-> FALSE, next |-> i, spans |-> <<>>]

\* an array of spans at position i
ParseArray(c, i) ==
    IF At(c, i) # "[" THEN [ok |-> FALSE, next |-> i, spans |-> <<>>]
    ELSE IF At(c, i + 1) = "]" THEN [ok |-> TRUE, next |-> i + 2, spans |-> <<>>]
    ELSE ParseSpans(c, i + 1, <<>>)

\* json.loads(content): whether it parses, whether the value is a dict,
\* whether the dict has "segments", and the list under it
ParseJson(c) ==
    LET fail == [ok |-> FALSE, dict |-> FALSE, has |-> FALSE, segments |-> <<>>]
    IN  IF At(c, 1) = "{" /\ At(c, 2) = "}" /\ Len(c) = 2
        THEN [ok |-> TRUE, dict |-> TRUE, has |-> FALSE, segments |-> <<>>]
        ELSE IF At(c, 1) = "[" 
        THEN LET a == ParseArray(c, 1)
             IN  IF a.ok /\ a.next = Len(c) + 1
                 THEN [ok |-> TRUE, dict |-> FALSE, has |-> FALSE, segments |-> <<>>]
                 ELSE fail
        ELSE IF At(c, 1) = "{" /\ At(c, 2) = "segments:"
        THEN LET a == ParseArray(c, 3)
             IN  IF a.ok /\ At(c, a.next) = "}" /\ a.next = Len(c)
                 THEN [ok |-> TRUE, dict |-> TRUE, has |-> TRUE, segments |-> a.spans]
                 ELSE fail
        ELSE fail

\* the read of diarize_segments.json: the replacements, json.loads and
\* .get("segments", []) in one try block, whose except clause gives
\* segments = []
ReadContent(c) ==
    LET p == ParseJson(Repair(c))
    IN  IF p.ok /\ p.dict /\ p.has THEN p.segments ELSE <<>>

\* ... of a file of the session directory
ReadTimeline(file) == ReadContent(ContentOf(file))

\* the timeline is read; an empty one sends the call to whole-file recognition
DiarizeRead ==
    /\ pc = "d_read"
    /\ segments' = ReadTimeline(files.diar)
    /\ IF segments' = <<>>
       THEN /\ pc' = "d_empty" /\ idx' = idx
            /\ ev' = [ev EXCEPT !.read = TRUE, !.fallback = "empty_timeline"]
       ELSE /\ pc' = "d_loop" /\ idx' = 1
            /\ ev' = [ev EXCEPT !.read = TRUE]
    /\ UNCHANGED <<storeVars, unitVars, serveVars>>
    /\ UNCHANGED <<files, req, results, counts, resp, prev>>

\* a fallback that returns the result list it has, without recognizing the
\* whole file
WholeFileFallback_NoRecognize(out) ==
    /\ pc \in {"d_empty", "d_nores", "d_except"}
    /\ pc' = "d_return"
    /\ ev' = ev
    /\ UNCHANGED <<storeVars, unitVars, serveVars>>
    /\ UNCHANGED <<files, req, segments, idx, results, counts, resp, prev>>

\* self.recognize(audio_path), from the three places that fall back to it:
\* the empty timeline, the empty result list (both inside the try block) and
\* the outer except clause
WholeFileFallback(out) ==
    /\ pc \in {"d_empty", "d_nores", "d_except"}
    /\ LET r == Recognize(TranscribeSource(req.src), out)
       IN  /\ ev' = [AfterRecognize(ev, TranscribeSource(req.src), out, r, TRUE) EXCEPT
                        !.excepted = @ \/ r.raised,
                        !.wholeFailed = r.raised /\ pc = "d_except",
                        !.wholeTranscribeRaised = @ \/ (out = "transcribe_raises")]
           /\ IF ~r.raised
              THEN pc' = "d_return" /\ results' = r.segments /\ resp' = resp
              ELSE IF pc = "d_except"
              THEN pc' = "done" /\ results' = results /\ resp' = ErrorResp(500)
              ELSE pc' = "d_except" /\ results' = results /\ resp' = resp
    /\ UNCHANGED <<storeVars, unitVars, serveVars>>
    /\ UNCHANGED <<files, req, segments, idx, counts, prev>>

\* the speaker ids a timeline can hold
SpeakerIds ==
    {"SPEAKER_00", "SPEAKER_01", "SPEAKER_02", "SPEAKER_27", "SPEAKER_-1", "SPEAKER_abc",
     "SPEAKER_", "SEGMENT_000", "UNKNOWN", "speakerA"}

\* speaker.startswith("SPEAKER_")
StartsWithSpeaker(speaker) ==
    speaker \in {"SPEAKER_00", "SPEAKER_01", "SPEAKER_02", "SPEAKER_27", "SPEAKER_-1",
                 "SPEAKER_abc", "SPEAKER_"}

\* int(speaker.split("_")[1]): the number, or ValueError
IntOfSuffix(speaker) ==
    CASE speaker = "SPEAKER_00" -> [ok |-> TRUE, num |-> 0]
      [] speaker = "SPEAKER_01" -> [ok |-> TRUE, num |-> 1]
      [] speaker = "SPEAKER_02" -> [ok |-> TRUE, num |-> 2]
      [] speaker = "SPEAKER_27" -> [ok |-> TRUE, num |-> 27]
      [] speaker = "SPEAKER_-1" -> [ok |-> TRUE, num |-> -1]
      [] OTHER -> [ok |-> FALSE, num |-> 0]

Letters ==
    <<"A", "B", "C", "D", "E", "F", "G", "H", "I", "J", "K", "L", "M",
      "N", "O", "P", "Q", "R", "S", "T", "U", "V", "W", "X", "Y", "Z">>

\* f"speaker{chr(65 + (num % 26))}"
SpeakerLetter(num) == "speaker" \o Letters[(num % 26) + 1]

\* the readable speaker label of a timeline speaker id, as the loop of
\* recognize_with_diarize_segments computes it: a suffix that is no number
\* leaves the id as it is
ConvertSpeaker(speaker) ==
    CASE speaker = "SPEAKER_00" -> "speakerA"
      [] speaker = "SPEAKER_01" -> "speakerB"
      [] speaker \notin {"SPEAKER_00", "SPEAKER_01"} /\ StartsWithSpeaker(speaker) ->
            IF IntOfSuffix(speaker).ok THEN SpeakerLetter(IntOfSuffix(speaker).num)
            ELSE speaker
      [] OTHER -> speaker

\* SpeakerSegmentProcessor._convert_speaker_id
ConvertSpeakerId(speaker) ==
    IF speaker = "SPEAKER_00" THEN "speakerA"
    ELSE IF speaker = "SPEAKER_01" THEN "speakerB"
    ELSE IF StartsWithSpeaker(speaker)
    THEN IF IntOfSuffix(speaker).ok THEN SpeakerLetter(IntOfSuffix(speaker).num)
         ELSE speaker
    ELSE speaker

\* the conversion inside recognize_segments_separately: int() is not in a
\* try block of its own, its ValueError goes to the except clause of the span
ConvertSpeakerSeparately(speaker) ==
    IF speaker = "SPEAKER_00" THEN [raised |-> FALSE, label |-> "speakerA"]
    ELSE IF speaker = "SPEAKER_01" THEN [raised |-> FALSE, label |-> "speakerB"]
    ELSE IF StartsWithSpeaker(speaker)
    THEN IF IntOfSuffix(speaker).ok
         THEN [raised |-> FALSE, label |-> SpeakerLetter(IntOfSuffix(speaker).num)]
         ELSE [raised |-> TRUE, label |-> speaker]
    ELSE [raised |-> FALSE, label |-> speaker]

\* f"{t:.2f}" of a time: hundredths of a second
Fmt2(t) == (t + 5) \div 10

\* the file name extract_segment gives a slice
SliceName(src, speaker, start, end) == <<src, speaker, Fmt2(start), Fmt2(end)>>

RECURSIVE JoinTexts(_)
\* " ".join(text_parts)
JoinTexts(parts) ==
    IF parts = <<>> THEN ""
    ELSE IF Len(parts) = 1 THEN parts[1]
    ELSE parts[1] \o " " \o JoinTexts(Tail(parts))

\* [item["text"] for item in segment_result if item["text"].strip()]
TextParts(segs) == SelectSeq([i \in DOMAIN segs |-> segs[i].text], LAMBDA t : t # "")

ExtractOutcomes == {"ok", "raises", "missing"}

\* a test that only turns away a span that ends at or before its start
SpanValid_OnlyPositive(start, end) == ~(end <= start)

\* the two tests at the head of the loop body: "if end_time <= start_time" and
\* "if end_time - start_time < 0.1" both count the span as failed and continue
SpanValid(start, end) == ~(end <= start) /\ ~(end - start < MinSpanMs)

\* a loop body that skips a span that is too short without counting it
DiarizeSpan_SkipUncounted(ex, out, coarse) ==
    /\ pc = "d_loop"
    /\ LET seg == segments[idx]
           valid == SpanValid(seg.start, seg.end)
           name == SliceName(req.src, seg.speaker, seg.start, seg.end)
           extracted == valid /\ ex # "raises"
           recognized == extracted /\ ex = "ok"
           r == Recognize(coarse, out)
           text == JoinTexts(TextParts(r.segments))
           good == recognized /\ ~r.raised /\ r.segments # <<>> /\ text # ""
       IN  /\ files' = IF extracted THEN [files EXCEPT !.slices = @ \cup {name}] ELSE files
           /\ ev' = [(IF recognized THEN AfterRecognize(ev, coarse, out, r, FALSE) ELSE ev)
                        EXCEPT !.extract = IF valid THEN @ + 1 ELSE @,
                               !.writes = IF extracted THEN Append(@, "slice") ELSE @]
           /\ results' = IF good
                         THEN Append(results,
                                 [speaker |-> ConvertSpeaker(seg.speaker),
                                  original_speaker |-> seg.speaker,
                                  text |-> text,
                                  start_time |-> seg.start,
                                  end_time |-> seg.end,
                                  segment_path |-> name,
                                  confidence |-> 1])
                         ELSE results
           /\ counts' = IF good THEN [counts EXCEPT !.ok = @ + 1]
                        ELSE IF ~valid THEN counts
                        ELSE [counts EXCEPT !.failed = @ + 1]
    /\ idx' = idx + 1
    /\ pc' = IF idx = Len(segments) THEN "d_persist" ELSE "d_loop"
    /\ UNCHANGED <<storeVars, unitVars, serveVars>>
    /\ UNCHANGED <<req, segments, resp, prev>>

\* one pass of "for i, segment in enumerate(segments)"
DiarizeSpan(ex, out, coarse) ==
    /\ pc = "d_loop"
    /\ LET seg == segments[idx]
           valid == SpanValid(seg.start, seg.end)
           name == SliceName(req.src, seg.speaker, seg.start, seg.end)
           extracted == valid /\ ex # "raises"
           recognized == extracted /\ ex = "ok"
           r == Recognize(coarse, out)
           text == JoinTexts(TextParts(r.segments))
           good == recognized /\ ~r.raised /\ r.segments # <<>> /\ text # ""
       IN  /\ files' = IF extracted THEN [files EXCEPT !.slices = @ \cup {name}] ELSE files
           /\ ev' = [(IF recognized THEN AfterRecognize(ev, coarse, out, r, FALSE) ELSE ev)
                        EXCEPT !.extract = IF valid THEN @ + 1 ELSE @,
                               !.writes = IF extracted THEN Append(@, "slice") ELSE @]
           /\ results' = IF good
                         THEN Append(results,
                                 [speaker |-> ConvertSpeaker(seg.speaker),
                                  original_speaker |-> seg.speaker,
                                  text |-> text,
                                  start_time |-> seg.start,
                                  end_time |-> seg.end,
                                  segment_path |-> name,
                                  confidence |-> 1])
                         ELSE results
           /\ counts' = IF good THEN [counts EXCEPT !.ok = @ + 1]
                        ELSE [counts EXCEPT !.failed = @ + 1]
    /\ idx' = idx + 1
    /\ pc' = IF idx = Len(segments) THEN "d_persist" ELSE "d_loop"
    /\ UNCHANGED <<storeVars, unitVars, serveVars>>
    /\ UNCHANGED <<req, segments, resp, prev>>

\* after the loop: the sort, diarize_segments_results.json, the summary; an
\* empty result list sends the call to whole-file recognition
DiarizePersist(w) ==
    /\ pc = "d_persist"
    /\ results' = SortByStart(results)
    /\ files' = [files EXCEPT
                    !.dresults = IF w # "first_fails" THEN Json(results') ELSE @,
                    !.dsummary = IF w = "ok" THEN Summary(results', 2) ELSE @]
    /\ ev' = [ev EXCEPT !.wfail = (w # "ok"),
                        !.excepted = (w # "ok"),
                        !.persisted = TRUE,
                        !.computed = results',
                        !.fallback = IF w = "ok" /\ results' = <<>> THEN "no_results" ELSE @,
                        !.writes = @ \o (IF w = "first_fails" THEN <<>>
                                         ELSE IF w = "second_fails"
                                         THEN <<"diarize_segments_results.json">>
                                         ELSE <<"diarize_segments_results.json",
                                                "diarize_segments_summary.txt">>)]
    /\ pc' = IF w # "ok" THEN "d_except"
             ELSE IF results' = <<>> THEN "d_nores" ELSE "d_return"
    /\ UNCHANGED <<storeVars, unitVars, serveVars>>
    /\ UNCHANGED <<req, segments, idx, counts, resp, prev>>

\* back in process_audio: the summary (again), final_results.json, the response
DiarizeFinish(w) ==
    /\ pc = "d_return"
    /\ files' = [files EXCEPT
                    !.dsummary = IF w # "first_fails" THEN Summary(results, 1) ELSE @,
                    !.final = IF w = "ok" THEN Json(results) ELSE @]
    /\ ev' = [ev EXCEPT !.wfail = @ \/ (w # "ok"),
                        !.writes = @ \o (IF w = "first_fails" THEN <<>>
                                         ELSE IF w = "second_fails"
                                         THEN <<"diarize_segments_summary.txt">>
                                         ELSE <<"diarize_segments_summary.txt",
                                                "final_results.json">>)]
    /\ pc' = "done"
    /\ resp' = IF w = "ok" THEN SuccessResp(results) ELSE ErrorResp(500)
    /\ UNCHANGED <<storeVars, unitVars, serveVars>>
    /\ UNCHANGED <<req, segments, idx, results, counts, prev>>

Next ==
    \/ \E mode \in Modes, src \in Sources, reuse \in BOOLEAN : AsrJson(mode, src, reuse)
    \/ \E out \in RecognizeOutcomes : CombinedRecognize(out)
    \/ \E w \in WriteOutcomes : CombinedPersist(w)
    \/ \E out \in ChannelOutcomes : SplitChannels(out)
    \/ \E out \in RecognizeOutcomes : SplitRecognize(out)
    \/ DiarizeEnter
    \/ \E out \in StageOutcomes, turns \in MLTurnChoices : DiarizeML(out, turns)
    \/ \E out \in StageOutcomes : DiarizeEnergy(out)
    \/ DiarizeRead
    \/ \E out \in RecognizeOutcomes : WholeFileFallback(out)
    \/ \E ex \in ExtractOutcomes, out \in RecognizeOutcomes, coarse \in SliceTranscripts :
          DiarizeSpan(ex, out, coarse)
    \/ \E w \in WriteOutcomes : DiarizePersist(w)
    \/ \E w \in WriteOutcomes : DiarizeFinish(w)

Spec == Init /\ [][Next]_vars

\* ------------------------------------------- components called on their own
\* the sample rates, in samples per second, and the lengths, in samples, of
\* the sources the slice extractor is given
SampleRates == {4, 8}

SourceLengths == {0, 8, 20}

\* the times, in milliseconds, it is asked for
SliceTimes == {-1500, -250, 0, 250, 1000, 1250, 2500, 3000}

\* int(x) of Python on a / b: rounds toward zero
TruncDiv(a, b) == IF a >= 0 THEN a \div b ELSE -((-a) \div b)

\* a slice bound of Python on a list of n items: negative ones count from the
\* end, and the result is kept within 0 .. n
SliceBound(i, n) ==
    LET k == IF i < 0 THEN i + n ELSE i
    IN  IF k < 0 THEN 0 ELSE IF k > n THEN n ELSE k

\* an extractor that clamps the end to the length of the source
ExtractSegment_ClampEndToLen(n, sr, start, end) ==
    LET s0 == TruncDiv(start * sr, 1000)
        e0 == TruncDiv(end * sr, 1000)
        start_sample == IF s0 >= n THEN n - 1 ELSE s0
        end_sample == IF e0 >= n THEN n ELSE e0
    IN  IF end_sample > start_sample
        THEN [raised |-> FALSE, silent |-> FALSE,
              samples |-> Max(0, SliceBound(end_sample, n) - SliceBound(start_sample, n)),
              from |-> SliceBound(start_sample, n), rate |-> sr]
        ELSE [raised |-> FALSE, silent |-> TRUE, samples |-> 1 * sr, from |-> 0, rate |-> sr]

\* AudioSegmentExtractor.extract_segment on a source of n samples at sr
\* samples per second, loaded and written without an I/O error: the audio it
\* writes
ExtractSegment(n, sr, start, end) ==
    LET s0 == TruncDiv(start * sr, 1000)
        e0 == TruncDiv(end * sr, 1000)
        start_sample == IF s0 >= n THEN n - 1 ELSE s0
        end_sample == IF e0 >= n THEN n - 1 ELSE e0
    IN  IF end_sample > start_sample
        THEN [raised |-> FALSE, silent |-> FALSE,
              samples |-> Max(0, SliceBound(end_sample, n) - SliceBound(start_sample, n)),
              from |-> SliceBound(start_sample, n), rate |-> sr]
        ELSE [raised |-> FALSE, silent |-> TRUE, samples |-> 1 * sr, from |-> 0, rate |-> sr]

\* a call of extract_segment
ExtractSegmentCall(n, sr, start, end) ==
    /\ unit' = [op |-> "extract_segment", n |-> n, sr |-> sr, start |-> start, end |-> end,
                result |-> ExtractSegment(n, sr, start, end)]
    /\ UNCHANGED <<storeVars, reqVars, serveVars>>

\* whisperx.align(...)["segments"] of a slice, with the words of each
\* segment: a word has the times of its segment, relative to the slice; a
\* blank segment has no word
AlignWithWords(segs) ==
    LET al == Align(segs)
    IN  [i \in DOMAIN al |->
            [text |-> al[i].text, start |-> al[i].start, end |-> al[i].end,
             words |-> IF Strip(al[i].text) = "" THEN <<>>
                       ELSE <<[word |-> Strip(al[i].text), start |-> al[i].start,
                               end |-> al[i].end]>>]]

RECURSIVE FlatWords(_)
\* the words of all the segments, in order
FlatWords(aligned) ==
    IF aligned = <<>> THEN <<>>
    ELSE Head(aligned).words \o FlatWords(Tail(aligned))

\* adjusted_word["start"] = word["start"] + start_time, and the same for end
Rebase(words, start_time) ==
    [i \in DOMAIN words |->
        [word |-> words[i].word, start |-> words[i].start + start_time,
         end |-> words[i].end + start_time]]

RECURSIVE DropLeadingEmpty(_)
DropLeadingEmpty(parts) ==
    IF parts # <<>> /\ Head(parts) = "" THEN DropLeadingEmpty(Tail(parts)) ELSE parts

RECURSIVE DropTrailingEmpty(_)
DropTrailingEmpty(parts) ==
    IF parts # <<>> /\ parts[Len(parts)] = ""
    THEN DropTrailingEmpty(SubSeq(parts, 1, Len(parts) - 1))
    ELSE parts

\* segment_text += seg["text"].strip() + " " over the segments, then
\* segment_text.strip(): the stripped texts joined by one space, the blank
\* ones at either end gone
SegmentText(segs) ==
    JoinTexts(DropTrailingEmpty(DropLeadingEmpty([i \in DOMAIN segs |-> Strip(segs[i].text)])))

\* the source file of the spans that are recognized on their own
UnitSource == "a"

\* one pass of the loop of SpeakerSegmentProcessor.process_segments: the
\* record appended for a span
ProcessSegment(speaker, start_time, end_time, coarse, out) ==
    LET path == SliceName(UnitSource, speaker, start_time, end_time)
        aligned == AlignWithWords(coarse)
    IN  CASE out = "transcribe_raises" ->
                [text |-> "", start_time |-> start_time, end_time |-> end_time,
                 speaker |-> ConvertSpeakerId(speaker), original_speaker |-> speaker,
                 error |-> TRUE, segment_path |-> path]
          [] out \in {"load_align_raises", "align_raises"} ->
                [text |-> SegmentText(coarse), start_time |-> start_time,
                 end_time |-> end_time, speaker |-> ConvertSpeakerId(speaker),
                 original_speaker |-> speaker, confidence |-> 1, words |-> <<>>,
                 segment_path |-> path]
          [] OTHER ->
                [text |-> SegmentText(aligned), start_time |-> start_time,
                 end_time |-> end_time, speaker |-> ConvertSpeakerId(speaker),
                 original_speaker |-> speaker, confidence |-> 1,
                 words |-> Rebase(FlatWords(aligned), start_time),
                 segment_path |-> path]

\* f"SEGMENT_{i:03d}"
SegmentLabel(index) == IF index = 0 THEN "SEGMENT_000" ELSE "SEGMENT_001"

\* one pass of the loop of process_segments_from_alignment
ProcessAlignmentSegment(index, original_text, start_time, end_time, coarse, out) ==
    LET path == SliceName(UnitSource, SegmentLabel(index), start_time, end_time)
        aligned == AlignWithWords(coarse)
    IN  CASE out = "transcribe_raises" ->
                [text |-> original_text, original_text |-> original_text,
                 start_time |-> start_time, end_time |-> end_time,
                 segment_path |-> path, index |-> index, error |-> TRUE]
          [] out \in {"load_align_raises", "align_raises"} ->
                [text |-> IF coarse # <<>> THEN SegmentText(coarse) ELSE original_text,
                 original_text |-> original_text,
                 start_time |-> start_time, end_time |-> end_time,
                 segment_path |-> path, index |-> index, confidence |-> 1,
                 words |-> <<>>]
          [] OTHER ->
                [text |-> IF aligned # <<>> THEN SegmentText(aligned) ELSE original_text,
                 original_text |-> original_text,
                 start_time |-> start_time, end_time |-> end_time,
                 segment_path |-> path, index |-> index, confidence |-> 1,
                 words |-> Rebase(FlatWords(aligned), start_time)]

\* one pass of the loop of recognize_segments_separately: alignment and the
\* conversion of the speaker id are inside the try block of the span, and
\* the words are taken as alignment returned them
RecognizeSeparately(speaker, start_time, end_time, coarse, out) ==
    LET aligned == AlignWithWords(coarse)
        conv == ConvertSpeakerSeparately(speaker)
    IN  IF out # "ok" \/ conv.raised
        THEN [text |-> "", start_time |-> start_time, end_time |-> end_time,
              speaker |-> speaker, original_speaker |-> speaker, error |-> TRUE]
        ELSE [text |-> SegmentText(aligned), start_time |-> start_time,
              end_time |-> end_time, speaker |-> conv.label,
              original_speaker |-> speaker, confidence |-> 1,
              words |-> FlatWords(aligned)]

\* the segment-level recognition paths
SegmentPaths ==
    {"process_segments", "process_segments_from_alignment", "recognize_segments_separately"}

\* the spans given to them: speaker (or index), start and end
UnitSpans ==
    { [speaker |-> "SPEAKER_01", index |-> 0, start |-> 0, end |-> 900],
      [speaker |-> "SPEAKER_02", index |-> 1, start |-> 900, end |-> 1800],
      [speaker |-> "SPEAKER_abc", index |-> 1, start |-> 1800, end |-> 2400] }

\* the text alignment_result.json holds for a span
OriginalTexts == {"", "orig"}

\* a span recognized on one of the three paths
SegmentCall(path, span, original_text, coarse, out) ==
    /\ path = "process_segments_from_alignment" \/ original_text = ""
    /\ unit' = [op |-> path, span |-> span, original_text |-> original_text,
                coarse |-> coarse, out |-> out, aligned |-> AlignWithWords(coarse),
                result |->
                    CASE path = "process_segments" ->
                            ProcessSegment(span.speaker, span.start, span.end, coarse, out)
                      [] path = "process_segments_from_alignment" ->
                            ProcessAlignmentSegment(span.index, original_text, span.start,
                                                    span.end, coarse, out)
                      [] OTHER ->
                            RecognizeSeparately(span.speaker, span.start, span.end, coarse,
                                                out)]
    /\ UNCHANGED <<storeVars, reqVars, serveVars>>

\* the three conversions of a speaker id, each called with the same id
ConvertSpeakerCall(speaker) ==
    /\ unit' = [op |-> "convert_speaker", speaker |-> speaker,
                engine |-> [raised |-> FALSE, label |-> ConvertSpeaker(speaker)],
                processor |-> [raised |-> FALSE, label |-> ConvertSpeakerId(speaker)],
                separately |-> ConvertSpeakerSeparately(speaker)]
    /\ UNCHANGED <<storeVars, reqVars, serveVars>>

\* the frame energies the energy heuristic is given on its own, as runs
\* <<energy, number of frames>>: a region of 50 frames from frame 20; three
\* long regions; a region that is above the threshold at the last frame; one
\* of 51 frames from frame 63 to the last frame; a short region; no region
EnergyInputs ==
    { <<<<1, 20>>, <<9, 50>>, <<1, 30>>>>,
      <<<<1, 70>>, <<9, 60>>, <<1, 70>>, <<9, 55>>, <<1, 70>>, <<9, 52>>, <<1, 70>>>>,
      <<<<1, 80>>, <<9, 60>>>>,
      <<<<1, 63>>, <<9, 51>>>>,
      <<<<1, 30>>, <<9, 20>>, <<1, 5>>>>,
      <<<<2, 50>>>> }

\* the energy heuristic run on a sequence of frame energies
EnergyCall(runs) ==
    /\ unit' = [op |-> "energy", runs |-> runs,
                above |-> AboveThreshold(Expand(runs)),
                turns |-> EnergyTurnsOf(Expand(runs))]
    /\ UNCHANGED <<storeVars, reqVars, serveVars>>

\* the timelines whose dumps are read back
ReadTimelines ==
    { <<>>,
      <<Turn("SPEAKER_00", 0, 900)>>,
      <<Turn("SPEAKER_00", 0, 900), Turn("SPEAKER_01", 900, 1800)>> }

\* content c with token x put in before position k
InsertAt(c, k, x) == SubSeq(c, 1, k - 1) \o <<x>> \o SubSeq(c, k, Len(c))

\* the positions of the closing braces and brackets
Closings(c) == {k \in DOMAIN c : c[k].t \in {"}", "]"}}

RECURSIVE CommaBeforeAll(_, _)
\* a comma put in before every closing brace and bracket from position k on
CommaBeforeAll(c, k) ==
    IF k > Len(c) THEN c
    ELSE IF k \in Closings(c) THEN CommaBeforeAll(InsertAt(c, k, Tok(",")), k + 2)
    ELSE CommaBeforeAll(c, k + 1)

\* the corrupted forms of a content: the stray character at any one place, a
\* comma before any one closing mark, both at once, a comma before every
\* closing mark with the stray character at either end
Corruptions(c) ==
    {InsertAt(c, k, Stray) : k \in 1..(Len(c) + 1)}
    \cup {InsertAt(c, k, Tok(",")) : k \in Closings(c)}
    \cup {InsertAt(InsertAt(c, k, Tok(",")), k + 1, Stray) : k \in Closings(c)}
    \cup {InsertAt(InsertAt(c, k, Stray), 1, Stray) : k \in Closings(c)}
    \cup {InsertAt(CommaBeforeAll(c, 1) \o <<Stray>>, 1, Stray)}

\* contents that encode no timeline: a dict without "segments", a list, a
\* dump cut off anywhere, a dump with a mark missing
Broken(c) ==
    {<<Tok("{"), Tok("}")>>, <<Tok("["), Tok("]")>>, SubSeq(c, 3, Len(c) - 1)}
    \cup {SubSeq(c, 1, k) : k \in 0..(Len(c) - 1)}
    \cup {SubSeq(c, 1, k - 1) \o SubSeq(c, k + 1, Len(c)) : k \in DOMAIN c}

\* the contents read: what they are, and the timeline they encode
ReadInputs ==
    UNION {
        {[kind |-> "intact", content |-> Dump(t), encodes |-> t]}
        \cup {[kind |-> "corrupted", content |-> c, encodes |-> t] : c \in Corruptions(Dump(t))}
        \cup {[kind |-> "broken", content |-> c, encodes |-> <<>>] : c \in Broken(Dump(t))}
        : t \in ReadTimelines }

\* diarize_segments.json with a given content is read
ReadCall(in) ==
    /\ unit' = [op |-> "read_timeline", kind |-> in.kind, content |-> in.content,
                encodes |-> in.encodes, result |-> ReadContent(in.content)]
    /\ UNCHANGED <<storeVars, reqVars, serveVars>>

\* the records the loop of process_segments appends, one for each extracted
\* span, in the order of the timeline
SegmentRecords(spans, coarse, outs) ==
    [i \in DOMAIN spans |->
        ProcessSegment(spans[i].speaker, spans[i].start, spans[i].end, coarse, outs[i])]

\* a process_segments that leaves out the spans whose recognition raised
ProcessSegments_DropFailed(content, ex, coarse, outs, w) ==
    LET spans == ReadContent(content)
        kept == SelectSeq(SegmentRecords(spans, coarse, outs),
                          LAMBDA r : "error" \notin DOMAIN r)
    IN  IF ex = "raises" THEN [raised |-> FALSE, list |-> <<>>]
        ELSE IF w # "ok" THEN [raised |-> TRUE, list |-> <<>>]
        ELSE [raised |-> FALSE, list |-> SortByStart(kept)]

\* SpeakerSegmentProcessor.process_segments: the timeline is read, every
\* span is extracted (an exception there returns []), every slice is
\* recognized, the records are sorted and written; an exception of those
\* writes leaves the call
ProcessSegments(content, ex, coarse, outs, w) ==
    LET spans == ReadContent(content)
    IN  IF ex = "raises" THEN [raised |-> FALSE, list |-> <<>>]
        ELSE IF w # "ok" THEN [raised |-> TRUE, list |-> <<>>]
        ELSE [raised |-> FALSE, list |-> SortByStart(SegmentRecords(spans, coarse, outs))]

\* the timelines process_segments is given: none, two spans out of order,
\* three spans with two that start together
ProcessTimelines ==
    { <<>>,
      <<Turn("SPEAKER_01", 900, 1800), Turn("SPEAKER_00", 0, 900)>>,
      <<Turn("SPEAKER_02", 900, 1800), Turn("SPEAKER_00", 0, 900),
        Turn("SPEAKER_01", 0, 400)>> }

\* a call of process_segments on a timeline file
ProcessSegmentsCall(timeline, ex, coarse, outs, w) ==
    /\ unit' = [op |-> "process_segments_list", timeline |-> timeline, ex |-> ex,
                coarse |-> coarse, outs |-> outs, w |-> w,
                result |-> ProcessSegments(Dump(timeline), ex, coarse, outs, w)]
    /\ UNCHANGED <<storeVars, reqVars, serveVars>>

NextUnits ==
    \/ \E timeline \in ProcessTimelines, ex \in {"ok", "raises"},
          coarse \in SliceTranscripts, w \in {"ok", "fails"} :
          \E outs \in [DOMAIN timeline -> RecognizeOutcomes] :
             ProcessSegmentsCall(timeline, ex, coarse, outs, w)
    \/ \E in \in ReadInputs : ReadCall(in)
    \/ \E runs \in EnergyInputs : EnergyCall(runs)
    \/ \E n \in SourceLengths, sr \in SampleRates, start \in SliceTimes, end \in SliceTimes :
          ExtractSegmentCall(n, sr, start, end)
    \/ \E speaker \in SpeakerIds : ConvertSpeakerCall(speaker)
    \/ \E path \in SegmentPaths, span \in UnitSpans, original_text \in OriginalTexts,
          coarse \in SliceTranscripts, out \in RecognizeOutcomes :
          SegmentCall(path, span, original_text, coarse, out)

\* the components of the pipeline, each called on its own with any input
SpecUnits == Init /\ [][NextUnits]_vars

\* --------------------------------------------- requests served concurrently
\* a request arrives and its thread enters asr_engine.recognize, where it
\* calls self.model.transcribe on the one model of the process; a server
\* that is not threaded takes a request only when none is being handled
ServeTranscribe(t, how) ==
    /\ thr[t].pc = "idle"
    /\ thr[t].served < MaxServed
    /\ threaded \in {"unset", how}
    /\ how = "threaded" \/ \A u \in Threads : thr[u].pc = "idle"
    /\ threaded' = how
    /\ thr' = [thr EXCEPT ![t].pc = "transcribe"]
    /\ UNCHANGED <<storeVars, reqVars, unitVars>>

\* transcribe returns; the thread loads the alignment model and aligns
ServeAlign(t) ==
    /\ thr[t].pc = "transcribe"
    /\ thr' = [thr EXCEPT ![t].pc = "align"]
    /\ UNCHANGED <<threaded, storeVars, reqVars, unitVars>>

\* recognize returns and the response is sent
ServeRespond(t) ==
    /\ thr[t].pc = "align"
    /\ thr' = [thr EXCEPT ![t] = [pc |-> "idle", served |-> @.served + 1]]
    /\ UNCHANGED <<threaded, storeVars, reqVars, unitVars>>

NextServe ==
    \/ \E t \in Threads, how \in {"threaded", "serial"} : ServeTranscribe(t, how)
    \/ \E t \in Threads : ServeAlign(t)
    \/ \E t \in Threads : ServeRespond(t)

\* the server with its one ASREngine, handling requests as they arrive
SpecServe == Init /\ [][NextServe]_vars

\* ================================================================== claims
\* what combined mode returns for a source when nothing raises
CombinedTranscript(src) == Recognize(TranscribeSource(src), "ok").segments

Finished(mode) == pc = "done" /\ req.mode = mode

\* C1: a request whose mode is none of the supported ones fails with the
\* unsupported-mode error before any processing: split_channels, the resolver
\* stages and recognize are not called and no file is written, neither the
\* session directory nor the copy of the source.
C1_UnsupportedModeNoProcessing ==
    (pc = "done" /\ req.mode \notin ValidModes) =>
        /\ resp.status = "error"
        /\ ev.split = 0 /\ ev.ml = 0 /\ ev.energy = 0 /\ ev.rec = 0
        /\ ev.writes = <<>>

\* the diarize_segments request ended with no usable span: the timeline was
\* empty, or the loop ended with an empty result list
ZeroUsable ==
    \/ ev.fallback \in {"empty_timeline", "no_results"}
    \/ (ev.persisted /\ ev.computed = <<>>)

\* C2: a diarize_segments request that ends with zero usable spans returns
\* the transcript a combined request returns for the same source.
C2_ZeroUsableIsCombined ==
    (/\ pc = "done"
     /\ resp.status = "success"
     /\ \/ req.mode = "combined"
        \/ req.mode = "diarize_segments" /\ ZeroUsable)
    => resp.transcript = CombinedTranscript(req.src)

\* a diarize_segments request whose two spans both gave nothing has returned
\* a whole-file transcript that is not empty
C2_Witness ==
    /\ Finished("diarize_segments")
    /\ ev.fallback = "no_results"
    /\ counts = [ok |-> 0, failed |-> 2]
    /\ resp.status = "success"
    /\ resp.transcript # <<>>

\* C3: in every mode the transcript returned is in ascending order of
\* start_time, whatever order recognize returns its segments in.
C3_TranscriptSorted ==
    (pc = "done" /\ resp.status = "success") => IsSortedByStart(resp.transcript)

\* C4: two calls of create_session_dir never return the same directory.
C4_SessionDirsDistinct ==
    \A i, j \in DOMAIN returned : i # j => returned[i] # returned[j]

\* the request is a second resolver call for the session directory and the
\* source of the request before
SecondCall ==
    /\ req.mode = "diarize_segments"
    /\ ev.reused
    /\ prev.mode = "diarize_segments"
    /\ prev.src = req.src

C6_TimelineWellFormed ==
    files.diar.kind = "timeline" =>
        LET t == files.diar.segments
        IN  /\ \A i \in 1..(Len(t) - 1) : t[i].start <= t[i + 1].start
            /\ \A i \in DOMAIN t : t[i].end >= t[i].start + MinSpanMs

\* C7: when both resolver stages raise, the request does not fail: it returns
\* the whole-file transcript, without speaker labels.  (Stated for the
\* requests in which transcribing the whole file did not raise.)
C7_BothStagesRaiseWholeFile ==
    (/\ Finished("diarize_segments")
     /\ ev.mlRaised /\ ev.energyRaised
     /\ ~ev.wholeTranscribeRaised)
    => /\ resp.status = "success"
       /\ resp.transcript = CombinedTranscript(req.src)
       /\ \A i \in DOMAIN resp.transcript : "speaker" \notin DOMAIN resp.transcript[i]

\* C8: a diarize_segments request fails only if no span was recognized and
\* the whole-file fallback failed too; with one span recognized it returns a
\* result.
C8_FailureOnlyIfNothingUsable ==
    (Finished("diarize_segments") /\ resp.status = "error") =>
        (counts.ok = 0 /\ ev.wholeFailed)

\* C9: when a write of a result artifact fails, the request still succeeds
\* and returns the transcript that had been computed, unchanged.
C9_PersistenceFailureKeepsTranscript ==
    (pc = "done" /\ ev.persisted /\ ev.wfail) =>
        (resp.status = "success" /\ resp.transcript = ev.computed)

\* C10: when loading the alignment model or aligning raises, recognize does
\* not raise: it returns the coarse segments of the speech-to-text model.
C10_AlignmentBestEffort ==
    ev.lastRec.out \in {"load_align_raises", "align_raises"} =>
        /\ ~ev.lastRec.raised
        /\ ev.lastRec.segments = ToSegments(ev.lastRec.coarse)

\* the same elements, each as many times
SameElements(a, b) ==
    /\ Len(a) = Len(b)
    /\ \A i \in DOMAIN a :
          Cardinality({j \in DOMAIN a : a[j] = a[i]}) =
          Cardinality({j \in DOMAIN b : b[j] = a[i]})

\* what recognize returns for a channel file when nothing raises
ChannelTranscript(src, ch) == Recognize(TranscribeChannel(src, ch), "ok").segments

\* C11: a successful split request on a stereo source has written exactly the
\* two channel files, has called recognize exactly twice, and returns the
\* segments of channel 0 tagged speakerA and those of channel 1 tagged
\* speakerB, none lost, none twice, in ascending order of start_time.
C11_SplitMergesBothChannels ==
    (Finished("split") /\ resp.status = "success") =>
        /\ Channels(req.src) = 2
        /\ files.channels = {0, 1}
        /\ ev.split = 1
        /\ ev.rec = 2
        /\ SameElements(resp.transcript,
                        Label(ChannelTranscript(req.src, 0), "speakerA")
                        \o Label(ChannelTranscript(req.src, 1), "speakerB"))
        /\ IsSortedByStart(resp.transcript)

\* a split request has returned three segments, a segment of channel 1 ahead
\* of the one of channel 0
C11_Witness ==
    /\ Finished("split")
    /\ resp.status = "success"
    /\ Len(resp.transcript) = 3
    /\ resp.transcript[1].speaker = "speakerB"
    /\ resp.transcript[2].speaker = "speakerA"

\* C12: split_channels on a source of one channel or of more than two raises
\* the channel-count error, which fails the request after that single call;
\* the call writes no channel file and creates no directory, and recognize is
\* not called.
C12_ChannelCountError ==
    (Finished("split") /\ Channels(req.src) # 2) =>
        /\ resp = ErrorResp(500)
        /\ ev.split = 1
        /\ ev.rec = 0
        /\ files.channels = {}
        /\ ev.writes = <<"session_dir", "original">>
        /\ \A nch \in 1..MaxChannels, given \in BOOLEAN :
              nch # 2 =>
                 LET r == SplitChannelsResult(nch, given, "ok")
                 IN  r.raised /\ r.error = "channel_count" /\ r.writes = <<>>

\* a split request on a source of three channels has failed
C12_Witness ==
    /\ Finished("split")
    /\ Channels(req.src) = 3
    /\ ev.channelError
    /\ resp.status = "error"

\* C13: extract_segment called with end <= start, negative or beyond the end
\* of the source included, does not raise and returns one second of silence
\* at the sample rate of the source.
C13_EmptySpanIsOneSecondOfSilence ==
    (unit.op = "extract_segment" /\ unit.end <= unit.start) =>
        /\ ~unit.result.raised
        /\ unit.result.silent
        /\ unit.result.samples = unit.sr
        /\ unit.result.rate = unit.sr

\* extract_segment was asked for a span that ends before it starts, both
\* bounds beyond the end of the source
C13_Witness ==
    /\ unit.op = "extract_segment"
    /\ unit.n = 8 /\ unit.sr = 8
    /\ unit.start = 3000 /\ unit.end = 2500
    /\ unit.result.silent

\* C15: each of the three speaker-id conversions maps SPEAKER_00 to speakerA,
\* SPEAKER_01 to speakerB, SPEAKER_<n> to speaker and the letter 'A' + (n mod
\* 26), returns any other id unchanged, never raises, and the three return
\* the same label.
C15_SpeakerConversionsAgree ==
    unit.op = "convert_speaker" =>
        LET want == IF IntOfSuffix(unit.speaker).ok
                    THEN SpeakerLetter(IntOfSuffix(unit.speaker).num)
                    ELSE unit.speaker
        IN  /\ ~unit.engine.raised /\ unit.engine.label = want
            /\ ~unit.processor.raised /\ unit.processor.label = want
            /\ ~unit.separately.raised /\ unit.separately.label = want

\* C14: on each of the three segment-level recognition paths, the words of a
\* span extracted at start_time carry source-file times: each word's start
\* and end are the slice-relative values alignment returned plus start_time.
C14_WordsRebased ==
    (unit.op \in SegmentPaths /\ unit.out = "ok" /\ "words" \in DOMAIN unit.result) =>
        LET rel == FlatWords(unit.aligned)
            got == unit.result.words
        IN  /\ Len(got) = Len(rel)
            /\ \A i \in DOMAIN got :
                  /\ got[i].start = rel[i].start + unit.span.start
                  /\ got[i].end = rel[i].end + unit.span.start

\* C16: a successful request, in each of the three modes, has written in the
\* session directory a structured result file holding the transcript it
\* returns and a summary with one line per segment.
C16_ResultsPersisted ==
    (pc = "done" /\ resp.status = "success") =>
        /\ files.final = Json(resp.transcript)
        /\ \E f \in {files.csummary, files.dsummary} :
              f.kind = "text" /\ Len(f.lines) = Len(resp.transcript)

\* the instant a session directory was created, read off its name
CreatedAt(name) == name.date * TicksPerDay + name.time

\* C17: whenever and however interleaved it runs, the sweep removes only
\* session directories older than max_age_days: never the directory of a
\* younger session, never a directory whose name is not a session id.
C17_SweepRemovesOnlyOldSessions ==
    \A r \in removed :
        /\ r.dir.kind = "session"
        /\ r.at - CreatedAt(r.dir) > r.max * TicksPerDay

\* C18: at no time are two calls of transcribe on the model of the process in
\* flight at once.
C18_TranscribeSerialized ==
    Cardinality({t \in Threads : thr[t].pc = "transcribe"}) <= 1

\* the label the claim gives a timeline speaker id
LabelOf(speaker) ==
    CASE speaker = "SPEAKER_00" -> "speakerA"
      [] speaker = "SPEAKER_01" -> "speakerB"
      [] speaker = "SPEAKER_02" -> "speakerC"
      [] OTHER -> speaker

\* C19: in the loop over the timeline of diarize_segments every span passed
\* is counted once, as succeeded or as failed; a succeeded span has added one
\* result, of that span, with a text that is not empty, the readable label of
\* its speaker and confidence 1.0, a failed one has added none; at the end
\* succeeded + failed is the number of spans and the result list has
\* succeeded entries.
C19_EverySpanAccounted ==
    (pc \in {"d_loop", "d_persist"}) =>
        /\ counts.ok + counts.failed = idx - 1
        /\ pc = "d_persist" => counts.ok + counts.failed = Len(segments)
        /\ Len(results) = counts.ok
        /\ \A i \in DOMAIN results :
              /\ results[i].text # ""
              /\ results[i].confidence = 1
              /\ results[i].speaker = LabelOf(results[i].original_speaker)
              /\ \E k \in 1..(idx - 1) :
                    /\ segments[k].speaker = results[i].original_speaker
                    /\ segments[k].start = results[i].start_time
                    /\ segments[k].end = results[i].end_time
        /\ \A i, k \in DOMAIN results : i # k => results[i] # results[k]

\* the loop has ended on a timeline of two spans, one succeeded, one failed
C19_Witness ==
    /\ pc = "d_persist"
    /\ Len(segments) = 2
    /\ counts = [ok |-> 1, failed |-> 1]
    /\ Len(results) = 1

\* C20: the stages of the resolver run in a fixed order, each only if the one
\* before raised: the energy heuristic runs only after the ML stage has
\* raised, the resolver fails only after both have raised, and a stage that
\* succeeds is the last to run.
C20_StagesInOrder ==
    /\ ev.ml <= 1 /\ ev.energy <= 1
    /\ ev.energy = 1 => (ev.ml = 1 /\ ev.mlRaised)
    /\ (ev.ml = 1 /\ ~ev.mlRaised) => (ev.energy = 0 /\ pc # "d_energy")
    /\ (ev.energy = 1 /\ ~ev.energyRaised) => (pc = "d_read" \/ ev.read)
    /\ (pc = "d_except" /\ ~ev.read) => (ev.mlRaised /\ ev.energyRaised)
    /\ pc = "d_energy" => (ev.ml = 1 /\ ev.mlRaised /\ ev.energy = 0)
    /\ ev.cacheHit => (ev.ml = 0 /\ ev.energy = 0)

\* the ML stage raised and the energy heuristic, run after it, gave the
\* timeline that the loop is going through
C20_Witness ==
    /\ pc = "d_loop"
    /\ ev.ml = 1 /\ ev.mlRaised
    /\ ev.energy = 1 /\ ~ev.energyRaised
    /\ segments # <<>>

\* C21: a call of recognize that loaded an alignment model has released it
\* (del model_a, gc.collect, empty_cache) by the time it returns or raises,
\* also when the alignment step raised.
C21_AlignModelReleased ==
    ev.lastRec.loaded => ev.lastRec.released

\* a sample offset kept within 0 .. n - 1
ClampOffset(k, n) == IF k < 0 THEN 0 ELSE IF k > n - 1 THEN n - 1 ELSE k

\* C22: extract_segment clamps both sample offsets into [0, length - 1],
\* negative ones and ones at or beyond the end included; when the clamped end
\* is greater than the clamped start the slice is the samples of the source
\* from the clamped start up to the clamped end, otherwise it is one second
\* of silence.
C22_OffsetsClamped ==
    (unit.op = "extract_segment" /\ unit.n > 0) =>
        LET cs == ClampOffset(TruncDiv(unit.start * unit.sr, 1000), unit.n)
            ce == ClampOffset(TruncDiv(unit.end * unit.sr, 1000), unit.n)
        IN  IF ce > cs
            THEN /\ ~unit.result.silent
                 /\ unit.result.from = cs
                 /\ unit.result.samples = ce - cs
            ELSE /\ unit.result.silent
                 /\ unit.result.samples = unit.sr

\* C23: when the stage that gives the timeline detected no turn (the pipeline
\* yielded no track, or the energy heuristic kept none), the timeline it
\* persists is exactly two spans, [0, d/2] of SPEAKER_00 and [d/2, d] of
\* SPEAKER_01, d the duration of the source, and that is the timeline read.
C23_ZeroTurnsTwoHalves ==
    ev.zeroTurns =>
        LET d == Duration(req.src)
            t == files.diar.segments
        IN  /\ files.diar.kind = "timeline"
            /\ Len(t) = 2
            /\ t[1].speaker = "SPEAKER_00" /\ t[1].start = 0 /\ 2 * t[1].end = d
            /\ t[2].speaker = "SPEAKER_01" /\ 2 * t[2].start = d /\ t[2].end = d
            /\ ev.read => segments = t

\* the pipeline raised, the energy heuristic kept no turn of the 1.2 s of
\* source "c", and the loop goes through the two halves
C23_Witness ==
    /\ pc = "d_loop"
    /\ req.src = "c"
    /\ ev.mlRaised /\ ev.energy = 1 /\ ev.zeroTurns
    /\ segments = <<Turn("SPEAKER_00", 0, 600), Turn("SPEAKER_01", 600, 1200)>>

\* the maximal regions of consecutive frames above the threshold, each from
\* the time of its first frame to the time of the first frame after it, or of
\* the last frame when it reaches the end
Regions(above) ==
    LET n == Len(above)
        first == {i \in 1..n : above[i] /\ (i = 1 \/ ~above[i - 1])}
        after(i) == IF \A j \in i..n : above[j] THEN n
                    ELSE CHOOSE j \in i..n : ~above[j] /\ \A k \in i..(j - 1) : above[k]
    IN  {[start |-> (i - 1) * HopMs, end |-> (after(i) - 1) * HopMs] : i \in first}

\* C24: the energy heuristic gives one turn for each maximal region of frames
\* above the threshold that lasts 0.5 s or more and none for a shorter one;
\* the turns are disjoint and in ascending order, their labels are SPEAKER_00
\* and SPEAKER_01 in turn, and a region that is above the threshold at the
\* last frame ends at the last frame.
C24_EnergyTurns ==
    unit.op = "energy" =>
        LET long == {r \in Regions(unit.above) : r.end - r.start >= MinSegmentMs}
            t == unit.turns
        IN  /\ Len(t) = Cardinality(long)
            /\ \A k \in DOMAIN t :
                  /\ [start |-> t[k].start, end |-> t[k].end] \in long
                  /\ t[k].speaker = IF k % 2 = 1 THEN "SPEAKER_00" ELSE "SPEAKER_01"
            /\ \A k \in 1..(Len(t) - 1) : t[k].end <= t[k + 1].start

\* C25: a span of the timeline shorter than 0.1 s, one that ends at or before
\* its start included, is skipped: extract_segment and recognize are not
\* called for it, no slice is written, and the loop goes on to the next span.
C25_ShortSpanSkipped ==
    [][(pc = "d_loop" /\ segments[idx].end - segments[idx].start < MinSpanMs) =>
          /\ ev'.extract = ev.extract
          /\ ev'.rec = ev.rec
          /\ ev'.writes = ev.writes
          /\ files' = files
          /\ results' = results
          /\ idx' = idx + 1
          /\ pc' = IF idx = Len(segments) THEN "d_persist" ELSE "d_loop"
          /\ \A start \in SliceTimes, end \in SliceTimes :
                end - start < MinSpanMs => ~SpanValid(start, end)]_vars

\* the loop has ended on the two halves of the 0.1 s of source "b", 0.05 s
\* each: nothing was extracted, nothing recognized
C25_Witness ==
    /\ pc = "d_persist"
    /\ req.src = "b"
    /\ Len(segments) = 2
    /\ segments[1].end - segments[1].start < MinSpanMs
    /\ counts.failed = 2
    /\ ev.extract = 0 /\ ev.rec = 0
    /\ files.slices = {}

\* C26: the read of a persisted timeline does not fail: from content with
\* the known corruption (the stray character, a comma directly before a
\* closing brace or bracket) it gives the timeline the content encodes, and
\* from content that still does not parse, or that has no "segments", the
\* empty timeline.
C26_ReadRepairs ==
    unit.op = "read_timeline" =>
        /\ unit.kind \in {"intact", "corrupted"} => unit.result = unit.encodes
        /\ unit.kind = "broken" => unit.result = <<>>

\* a dump of two spans with a comma and the stray character before the
\* closing bracket was read back
C26_Witness ==
    /\ unit.op = "read_timeline"
    /\ unit.kind = "corrupted"
    /\ \E k \in DOMAIN unit.content :
          /\ unit.content[k].t = ","
          /\ At(unit.content, k + 1) = "stray"
          /\ At(unit.content, k + 2) = "]"
    /\ Len(unit.result) = 2
    /\ unit.result = unit.encodes

\* C27: within a request no file of the session directory is written twice:
\* every slice goes to a path of its own, and the channel files, the timeline,
\* the result files and the summary are each written once.
C27_NoArtifactRewritten ==
    /\ \A i, j \in DOMAIN ev.writes :
          (i # j /\ ev.writes[i] # "slice") => ev.writes[i] # ev.writes[j]
    /\ Cardinality(files.slices) =
          Cardinality({i \in DOMAIN ev.writes : ev.writes[i] = "slice"})

\* C28: one call of recognize_with_diarize_segments calls recognize on the
\* whole source at most once, whatever path it takes.
C28_WholeFileAtMostOnce ==
    req.mode = "diarize_segments" => ev.whole <= 1

\* C29: the timeline a diarize_segments request reads and applies to its
\* source file was computed from that source file, also when the request
\* runs in a session directory that an earlier request, for another source,
\* has used.
C29_TimelineOfSameSource ==
    (req.mode = "diarize_segments" /\ ev.read /\ files.diar.kind = "timeline") =>
        files.diar.of = req.src

\* C30: process_segments returns one record for each span of the timeline it
\* read, in ascending order of start_time, each with the start, the end and
\* the speaker of its span; a span whose recognition raised has a record with
\* an empty text and an error; the list is empty only when the timeline is,
\* or when the extraction of the slices raised.
C30_OneRecordPerSpan ==
    (unit.op = "process_segments_list" /\ ~unit.result.raised) =>
        LET t == unit.timeline
            l == unit.result.list
            key(x, speaker) == [speaker |-> speaker, start |-> x.start_time, end |-> x.end_time]
        IN  IF unit.ex = "raises" THEN l = <<>>
            ELSE /\ Len(l) = Len(t)
                 /\ IsSortedByStart(l)
                 /\ SameElements([i \in DOMAIN l |-> key(l[i], l[i].original_speaker)],
                                 [i \in DOMAIN t |->
                                     [speaker |-> t[i].speaker, start |-> t[i].start,
                                      end |-> t[i].end]])
                 /\ \A i \in DOMAIN t :
                       unit.outs[i] = "transcribe_raises" =>
                          \E k \in DOMAIN l :
                             /\ l[k].start_time = t[i].start /\ l[k].end_time = t[i].end
                             /\ l[k].original_speaker = t[i].speaker
                             /\ l[k].text = "" /\ "error" \in DOMAIN l[k]

\* process_segments was given two spans out of order, the recognition of the
\* later one raised: it returned two records, the earlier span first, the
\* other with an error
C30_Witness ==
    /\ unit.op = "process_segments_list"
    /\ Len(unit.timeline) = 2
    /\ unit.ex = "ok" /\ unit.w = "ok"
    /\ unit.outs[1] = "transcribe_raises" /\ unit.outs[2] = "ok"
    /\ Len(unit.result.list) = 2
    /\ unit.result.list[1].start_time = 0
    /\ "error" \in DOMAIN unit.result.list[2]

====
